---- MODULE Spec2Model ----
(***************************************************************************)
(* Model of the K2 / PulseChain node monitors of KOII-Pond-Pioneers.       *)
(*                                                                         *)
(* Spec         the cross-submission auditor, Audit.audit, run on one      *)
(*              batch of submissions (src/unnamed/part_003, 282-333)       *)
(* SpecValidate Audit.validateNodeData as a function of one node report    *)
(*              and the submissions of the peers (part_003, 248-269)       *)
(* SpecMedian   Audit.getMedian as a function of a list of numbers         *)
(*              (part_003, 271-280)                                        *)
(*                                                                         *)
(* JavaScript numbers are modelled as exact rationals [num, den] plus NaN. *)
(* Block heights and TPS values are drawn from integers, so every          *)
(* difference the code compares is a multiple of 1/2 and every tolerance   *)
(* is a multiple of 1/40; the double nearest to 0.05 lies above 1/20 by    *)
(* less than 2^-57, which cannot move a comparison between such values,    *)
(* so the exact arithmetic decides every comparison as IEEE-754 does.      *)
(***************************************************************************)
EXTENDS Integers, Sequences, FiniteSets, TLC

(***************************************************************************)
(* Bounds of the model.                                                    *)
(***************************************************************************)
MaxSubs  == 2    \* submissions in one audited batch
MaxPeers == 2    \* other submissions handed to validateNodeData
MaxLen   == 3    \* numbers handed to getMedian
MaxNodes == 2    \* node reports in one stored submission
MaxSummaryNodes == 3    \* nodes in one audited PulseChain summary

(***************************************************************************)
(* JavaScript values.                                                      *)
(***************************************************************************)
Rat(n, d) == [nan |-> FALSE, num |-> n, den |-> d]
Int2Num(n) == Rat(n, 1)
NaN == [nan |-> TRUE, num |-> 0, den |-> 1]

Abs(x) == IF x < 0 THEN -x ELSE x

\* a - b, a * b, Math.abs(a), Math.max(a, b), a <= b on numbers that are not NaN
NumSub(a, b) == Rat(a.num * b.den - b.num * a.den, a.den * b.den)
NumMul(a, b) == Rat(a.num * b.num, a.den * b.den)
NumAbs(a) == Rat(Abs(a.num), a.den)
NumLe(a, b) == a.num * b.den <= b.num * a.den
NumMax(a, b) == IF NumLe(a, b) THEN b ELSE a
NumEq(a, b) == /\ a.nan = FALSE
               /\ b.nan = FALSE
               /\ a.num * b.den = b.num * a.den

\* a / b on non-negative integers: 0 / 0 is NaN (x / 0 with x > 0 is Infinity,
\* which audit cannot produce since validNodeCount <= totalNodes)
NumDiv(a, b) == IF b = 0 THEN NaN ELSE Rat(a, b)

\* timestamp < bound and timestamp > bound; a timestamp that is undefined or
\* not a number converts to NaN, and every comparison with NaN is false
JsLt(ts, bound) == ts.isNumber /\ ts.n < bound
JsGt(ts, bound) == ts.isNumber /\ ts.n > bound

SeqsUpTo(S, n) == UNION {[1..k -> S] : k \in 0..n}
Range(s) == {s[i] : i \in 1..Len(s)}

(***************************************************************************)
(* State.                                                                  *)
(***************************************************************************)
VARIABLES
    \* one call of Audit.audit(submissionValues, round)
    submissionValues,  \* the batch: a sequence of submission values
    objId,             \* objId[i]: the object that submissionValues[i] refers to
    round,             \* the round argument
    roundTime,         \* what namespace.getRoundTime() resolves to
    pc,                \* "loop", "returned" or "thrown"
    idx,               \* position of the for-of loop of lines 287-301
    validSubmissions,  \* positions of the submissions pushed at line 300
    peersUsed,         \* peersUsed[k]: positions handed to validateNodeData as
                       \* otherSubmissions for validSubmissions[k] (line 310)
    result,            \* the scoredSubmissions returned at line 327
    \* one call of Audit.validateNodeData(nodeData, otherSubmissions)
    nodeData, otherSubmissions, vpc, vPromise,
    \* one call of Audit.getMedian(numbers)
    numbers, mpc, median,
    \* a second call of Audit.audit with the arguments of the first
    calls,             \* 1 during the first call, 2 during the second
    firstOutcome,      \* how the first call ended
    \* one call of checkNodeStatus(endpoint) of one of the collectors
    variant,           \* which collector
    failing,           \* the requests that are rejected when issued
    healthOk,          \* res.ok of the answer to the /health request
    cpc,               \* "call" or "done"
    report,            \* the record checkNodeStatus resolves to
    \* one run of task(round): the endpoint checks run concurrently
    taskVariant,       \* the K2 task or the PulseChain task
    checks,            \* per endpoint, how far its checkNodeStatus has got
    settled,           \* the endpoints in the order their checks settled
    tpc,               \* "checking", "storing", "stored" or "failed"
    taskNodes,         \* the nodes sequence of the summary
    cause,             \* why the run failed
    \* the rounds of one Task object: what its last call of task(round) did
    lastCheck,         \* this.nodeMetrics.lastCheck
    taskRound,         \* the round argument
    results,           \* what the endpoint checks resolved to
    validatedResults,  \* validateMetrics of each of them
    networkScore,      \* their mean score
    spc,               \* "ready", "returned" or "thrown"
    \* one call of Submission.submitTask(roundNumber)
    storedData,        \* what namespace.getTaskSubmission resolves to
    isValid,           \* the isValid of line 71
    returnedData,      \* what submitTask returns
    subPc,             \* "call", "returned" or "thrown"
    \* one call of the PulseChain audit(submissionValue)
    submissionValue,   \* the string handed to audit, by what JSON.parse makes of it
    pulseChecks,       \* the checks object of lines 56-83
    pulseResult,       \* what audit resolves to
    ppc,               \* "call", "returned" or "thrown"
    \* the host store and the submissions handed to the host
    hostStore,         \* hostStore[key]: the value stored under the key
    hostSubmissions,   \* the arguments of the submitTask calls that resolved
    lastOp,            \* the last call of task(r) or submission(r), and its outcome
    \* Submission.validateSubmission of the data Task.task built
    validation,        \* the data validated, how long after it was built, the verdict
    \* the loop of monitorNodes
    previousCheck,     \* the module variable previousCheck
    monitorResults,    \* the results of the last iteration
    previousResults,   \* the previousResults argument of its printStatusUpdate
    printedIssues,     \* per node, the issues printed in the last iteration
    monPc              \* "start" or "sleeping"

auditVars == <<submissionValues, objId, round, roundTime, pc, idx,
               validSubmissions, peersUsed, result>>
validateVars == <<nodeData, otherSubmissions, vpc, vPromise>>
medianVars == <<numbers, mpc, median>>
repeatVars == <<calls, firstOutcome>>

collectVars == <<variant, failing, healthOk, cpc, report>>

\* the variables of the auditor, and those of the other components
auditorVars == <<auditVars, validateVars, medianVars, repeatVars>>
taskVars == <<taskVariant, checks, settled, tpc, taskNodes, cause>>
scoreVars == <<lastCheck, taskRound, results, validatedResults, networkScore, spc>>
submissionVars == <<storedData, isValid, returnedData, subPc>>
pulseVars == <<submissionValue, pulseChecks, pulseResult, ppc>>
hostVars == <<hostStore, hostSubmissions, lastOp>>
acceptVars == <<validation>>
monitorVars == <<previousCheck, monitorResults, previousResults, printedIssues, monPc>>
laterVars == <<hostVars, acceptVars, monitorVars>>
componentVars == <<collectVars, taskVars, scoreVars, submissionVars, pulseVars, laterVars>>
restVars == <<repeatVars, componentVars>>
vars == <<auditVars, validateVars, medianVars, restVars>>

\* what an action of one component leaves unchanged
notCollect == <<auditorVars, taskVars, scoreVars, submissionVars, pulseVars, laterVars>>
notTask == <<auditorVars, collectVars, scoreVars, submissionVars, pulseVars, laterVars>>
notScore == <<auditorVars, collectVars, taskVars, submissionVars, pulseVars, laterVars>>
notSubmission == <<auditorVars, collectVars, taskVars, scoreVars, pulseVars, laterVars>>
notPulse == <<auditorVars, collectVars, taskVars, scoreVars, submissionVars, laterVars>>
earlierVars == <<auditorVars, collectVars, taskVars, scoreVars, submissionVars, pulseVars>>
notHost == <<earlierVars, acceptVars, monitorVars>>
notAccept == <<auditorVars, collectVars, taskVars, submissionVars, pulseVars, hostVars,
               monitorVars>>
notMonitor == <<earlierVars, hostVars, acceptVars>>

NoOutcome == [pc |-> "none", result |-> <<>>]

RepeatIdle ==
    /\ calls = 1
    /\ firstOutcome = NoOutcome

NotResponding == [isResponding |-> FALSE, populated |-> {}, health |-> "offline"]

CollectIdle ==
    /\ variant = "none"
    /\ failing = {}
    /\ healthOk = TRUE
    /\ cpc = "idle"
    /\ report = NotResponding

TaskIdle ==
    /\ taskVariant = "none"
    /\ checks = <<>>
    /\ settled = <<>>
    /\ tpc = "idle"
    /\ taskNodes = <<>>
    /\ cause = "none"

\* lastCheck before the first round: null
NoCheck == [isNull |-> TRUE]

ScoreIdle ==
    /\ lastCheck = NoCheck
    /\ taskRound = 0
    /\ results = <<>>
    /\ validatedResults = <<>>
    /\ networkScore = NaN
    /\ spc = "idle"

\* getTaskSubmission found nothing
NoData == [isNull |-> TRUE]

SubmissionIdle ==
    /\ storedData = NoData
    /\ isValid = FALSE
    /\ returnedData = NoData
    /\ subPc = "idle"

NoChecks ==
    [hasAllNodes |-> FALSE, hasActiveNodes |-> FALSE, validBlockHeights |-> FALSE,
     validGasPrices |-> FALSE, validTimestamp |-> FALSE, validPeerCounts |-> FALSE]

\* the result of the catch block of audit, lines 100-106
Rejection == [isValid |-> FALSE, score |-> Int2Num(0)]

PulseIdle ==
    /\ submissionValue = [shape |-> "none"]
    /\ pulseChecks = NoChecks
    /\ pulseResult = Rejection
    /\ ppc = "idle"

NoOp == [op |-> "none"]

HostIdle ==
    /\ hostStore = <<>>
    /\ hostSubmissions = {}
    /\ lastOp = NoOp

\* nothing validated yet
NoValidation == [state |-> "none"]

AcceptIdle == validation = NoValidation

\* previousCheck = null, line 23 of part_002
NoPrevious == <<[isNull |-> TRUE]>>

MonitorIdle ==
    /\ previousCheck = NoPrevious
    /\ monitorResults = <<>>
    /\ previousResults = NoPrevious
    /\ printedIssues = <<>>
    /\ monPc = "idle"

\* every component but one is idle
AllIdleBut(component) ==
    /\ component # "collect" => CollectIdle
    /\ component # "task" => TaskIdle
    /\ component # "score" => ScoreIdle
    /\ component # "submission" => SubmissionIdle
    /\ component # "pulse" => PulseIdle
    /\ component # "host" => HostIdle
    /\ component # "accept" => AcceptIdle
    /\ component # "monitor" => MonitorIdle

ComponentsIdle == AllIdleBut("none")

RestIdle == RepeatIdle /\ ComponentsIdle

(***************************************************************************)
(* Audit.getMedian                                                         *)
(***************************************************************************)
\* numbers.slice().sort((a, b) => a - b): ascending numeric order
RECURSIVE Insert(_, _)
Insert(x, s) ==
    IF s = <<>> THEN <<x>>
    ELSE IF x - Head(s) < 0 THEN <<x>> \o s
    ELSE <<Head(s)>> \o Insert(x, Tail(s))

RECURSIVE Sort(_)
Sort(s) == IF s = <<>> THEN <<>> ELSE Insert(Head(s), Sort(Tail(s)))

\* getMedian without the sort of line 272: the middle of the input as given
getMedian_NoSort(nums) ==
    LET middle == Len(nums) \div 2
    IN  IF Len(nums) = 0 THEN NaN
        ELSE IF Len(nums) % 2 = 0
        THEN Rat(nums[middle] + nums[middle + 1], 2)
        ELSE Int2Num(nums[middle + 1])

\* positions are 1-based here: sorted[middle - 1], sorted[middle] of the code
\* are sorted[middle], sorted[middle + 1]
getMedian(nums) ==
    LET sorted == Sort(nums)
        middle == Len(sorted) \div 2
    IN  IF Len(sorted) = 0 THEN NaN   \* (undefined + undefined) / 2
        ELSE IF Len(sorted) % 2 = 0
        THEN Rat(sorted[middle] + sorted[middle + 1], 2)
        ELSE Int2Num(sorted[middle + 1])

(***************************************************************************)
(* Audit.validateNodeData                                                  *)
(***************************************************************************)
\* sub.nodes.find(n => n.endpoint === endpoint): the first match as a
\* one-element sequence, the empty sequence for undefined
Find(nodes, endpoint) ==
    LET hits == SelectSeq(nodes, LAMBDA n : n.endpoint = endpoint)
    IN  IF hits = <<>> THEN <<>> ELSE <<Head(hits)>>

RECURSIVE FlatMapFind(_, _)
FlatMapFind(subs, endpoint) ==
    IF subs = <<>> THEN <<>>
    ELSE Find(Head(subs).nodes, endpoint) \o FlatMapFind(Tail(subs), endpoint)

\* nodeMetrics.map(n => n.metrics.blockHeight), nodeMetrics.map(n => n.metrics.tps)
BlockHeightsOf(reports) == [i \in 1..Len(reports) |-> reports[i].metrics.blockHeight]
TpsOf(reports) == [i \in 1..Len(reports) |-> reports[i].metrics.tps]

Fulfilled(v) == [status |-> "fulfilled", value |-> v]
Rejected == [status |-> "rejected", value |-> FALSE]

\* 0.5 written for 0.05
Tolerance_Wide == Rat(5, 10)

Tolerance == Rat(5, 100)

\* validateNodeData with < for <= at lines 265-266
validateNodeData_Strict(node, others) ==
    LET nodeMetrics == FlatMapFind(others, node.endpoint)
    IN  IF Len(nodeMetrics) = 0 THEN Fulfilled(FALSE)
        ELSE IF \E i \in 1..Len(nodeMetrics) : ~nodeMetrics[i].hasMetrics
        THEN Rejected
        ELSE IF ~node.hasMetrics THEN Rejected
        ELSE
        LET medianBlockHeight ==
                getMedian(BlockHeightsOf(nodeMetrics))
            medianTps == getMedian(TpsOf(nodeMetrics))
            blockHeightDiff ==
                NumAbs(NumSub(Int2Num(node.metrics.blockHeight), medianBlockHeight))
            tpsDiff == NumAbs(NumSub(Int2Num(node.metrics.tps), medianTps))
            blockHeightTol == NumMul(medianBlockHeight, Tolerance)
            tpsTol == NumMax(NumMul(medianTps, Tolerance), Int2Num(1))
        IN  Fulfilled(/\ NumLe(blockHeightDiff, blockHeightTol)
                      /\ ~NumLe(blockHeightTol, blockHeightDiff)
                      /\ NumLe(tpsDiff, tpsTol)
                      /\ ~NumLe(tpsTol, tpsDiff))

\* The promise an async call settles to: reading n.metrics.blockHeight of a
\* report without metrics throws a TypeError, which rejects the promise.
validateNodeData(node, others) ==
    LET nodeMetrics == FlatMapFind(others, node.endpoint)
    IN  IF Len(nodeMetrics) = 0 THEN Fulfilled(FALSE)
        ELSE IF \E i \in 1..Len(nodeMetrics) : ~nodeMetrics[i].hasMetrics
        THEN Rejected
        ELSE IF ~node.hasMetrics THEN Rejected
        ELSE
        LET medianBlockHeight ==
                getMedian(BlockHeightsOf(nodeMetrics))
            medianTps == getMedian(TpsOf(nodeMetrics))
            blockHeightDiff ==
                NumAbs(NumSub(Int2Num(node.metrics.blockHeight), medianBlockHeight))
            tpsDiff == NumAbs(NumSub(Int2Num(node.metrics.tps), medianTps))
            blockHeightValid ==
                NumLe(blockHeightDiff, NumMul(medianBlockHeight, Tolerance))
            tpsValid ==
                NumLe(tpsDiff, NumMax(NumMul(medianTps, Tolerance), Int2Num(1)))
        IN  Fulfilled(blockHeightValid /\ tpsValid)

(***************************************************************************)
(* Audit.audit                                                             *)
(***************************************************************************)
\* the structure check without Array.isArray
StructureRejected_NoArrayCheck(submission) ==
    \/ submission.isNull
    \/ submission.nodesKind = "undefined"

\* !submission || !submission.nodes || !Array.isArray(submission.nodes)
StructureRejected(submission) ==
    \/ submission.isNull
    \/ submission.nodesKind = "undefined"
    \/ submission.nodesKind # "array"

\* submission.timestamp < round * roundTime ||
\* submission.timestamp > (round + 1) * roundTime
WindowRejected(submission, r, rt) ==
    \/ JsLt(submission.timestamp, r * rt)
    \/ JsGt(submission.timestamp, (r + 1) * rt)

\* Array.prototype.filter keeps an element when the callback's result is
\* truthy; the callback of line 309 returns the promise of an async method,
\* and every object is truthy
ToBoolean(promise) == promise.status \in {"fulfilled", "rejected", "pending"}

\* validSubmissions.filter(s => s !== submission): strict inequality of
\* object references
OtherSubmissions(valid, k) ==
    SelectSeq(valid, LAMBDA j : objId[j] # objId[valid[k]])

ValidNodes(valid, k) ==
    LET submission == submissionValues[valid[k]]
        positions == OtherSubmissions(valid, k)
        others == [n \in 1..Len(positions) |-> submissionValues[positions[n]]]
    IN  SelectSeq(submission.nodes,
                  LAMBDA node : ToBoolean(validateNodeData(node, others)))

\* (submission.validNodeCount / submission.totalNodes) * 100
Score(validNodeCount, totalNodes) ==
    LET q == NumDiv(validNodeCount, totalNodes)
    IN  IF q.nan THEN NaN ELSE NumMul(q, Int2Num(100))

\* the results built from the end of validSubmissions
ScoredSubmissions_Reversed(valid) ==
    [k \in 1..Len(valid) |->
        [submitter |-> submissionValues[valid[Len(valid) + 1 - k]].submitter,
         score |-> Score(Len(ValidNodes(valid, Len(valid) + 1 - k)),
                         Len(submissionValues[valid[Len(valid) + 1 - k]].nodes))]]

ScoredSubmissions(valid) ==
    [k \in 1..Len(valid) |->
        [submitter |-> submissionValues[valid[k]].submitter,
         score |-> Score(Len(ValidNodes(valid, k)),
                         Len(submissionValues[valid[k]].nodes))]]

\* one iteration of the loop of lines 287-301
LoopSkipStructure ==
    /\ pc = "loop"
    /\ idx <= Len(submissionValues)
    /\ StructureRejected(submissionValues[idx])
    /\ idx' = idx + 1
    /\ UNCHANGED <<submissionValues, objId, round, roundTime, pc,
                   validSubmissions, peersUsed, result>>
    /\ UNCHANGED <<validateVars, medianVars, restVars>>

LoopSkipWindow ==
    /\ pc = "loop"
    /\ idx <= Len(submissionValues)
    /\ ~StructureRejected(submissionValues[idx])
    /\ WindowRejected(submissionValues[idx], round, roundTime)
    /\ idx' = idx + 1
    /\ UNCHANGED <<submissionValues, objId, round, roundTime, pc,
                   validSubmissions, peersUsed, result>>
    /\ UNCHANGED <<validateVars, medianVars, restVars>>

LoopPush ==
    /\ pc = "loop"
    /\ idx <= Len(submissionValues)
    /\ ~StructureRejected(submissionValues[idx])
    /\ ~WindowRejected(submissionValues[idx], round, roundTime)
    /\ validSubmissions' = Append(validSubmissions, idx)
    /\ idx' = idx + 1
    /\ UNCHANGED <<submissionValues, objId, round, roundTime, pc,
                   peersUsed, result>>
    /\ UNCHANGED <<validateVars, medianVars, restVars>>

\* lines 303-305, rethrown by the catch of lines 329-332
ThrowNoValid ==
    /\ pc = "loop"
    /\ idx > Len(submissionValues)
    /\ Len(validSubmissions) = 0
    /\ pc' = "thrown"
    /\ UNCHANGED <<submissionValues, objId, round, roundTime, idx,
                   validSubmissions, peersUsed, result>>
    /\ UNCHANGED <<validateVars, medianVars, restVars>>

\* lines 307-327
ScoreAndReturn ==
    /\ pc = "loop"
    /\ idx > Len(submissionValues)
    /\ Len(validSubmissions) # 0
    /\ peersUsed' = [k \in 1..Len(validSubmissions) |->
                        OtherSubmissions(validSubmissions, k)]
    /\ result' = ScoredSubmissions(validSubmissions)
    /\ pc' = "returned"
    /\ UNCHANGED <<submissionValues, objId, round, roundTime, idx,
                   validSubmissions>>
    /\ UNCHANGED <<validateVars, medianVars, restVars>>

(***************************************************************************)
(* Inputs of the audit.                                                    *)
(***************************************************************************)
Submitters == {"A", "B"}
RoundTimes == {10}
Rounds == {2}

NoMetrics == [blockHeight |-> 0, tps |-> 0]
Report(ep, bh, t) ==
    [endpoint |-> ep, hasMetrics |-> TRUE, metrics |-> [blockHeight |-> bh, tps |-> t]]
BareReport(ep) == [endpoint |-> ep, hasMetrics |-> FALSE, metrics |-> NoMetrics]

\* the nodes arrays of the batch: none, one or two endpoints reported, the
\* first endpoint at the height of its peers or far off it, or without metrics
NodeLists ==
    { <<>>,
      <<Report("e1", 100, 10)>>,
      <<Report("e1", 150, 10)>>,
      <<Report("e1", 100, 10), Report("e2", 100, 10)>>,
      <<BareReport("e1")>> }

Missing == [isNumber |-> FALSE, n |-> 0]
Time(t) == [isNumber |-> TRUE, n |-> t]

\* no timestamp, and the two ends of the round's window from either side
Timestamps(r, rt) ==
    {Missing} \cup {Time(t) : t \in {r * rt - 1, r * rt, (r + 1) * rt, (r + 1) * rt + 1}}

Null == [isNull |-> TRUE, submitter |-> "", timestamp |-> Missing,
         nodesKind |-> "undefined", nodes |-> <<>>]

Submissions(r, rt) ==
    {Null}
    \cup [isNull : {FALSE}, submitter : Submitters, timestamp : {Time(r * rt)},
          nodesKind : {"undefined", "object"}, nodes : {<<>>}]
    \cup [isNull : {FALSE}, submitter : Submitters, timestamp : Timestamps(r, rt),
          nodesKind : {"array"}, nodes : NodeLists]

\* objId[i] = i for a fresh object, or the identity of an earlier element
\* with the same value when the batch holds one object more than once
Identities(subs) ==
    {f \in [1..Len(subs) -> 1..MaxSubs] :
        \A i \in 1..Len(subs) :
            \/ f[i] = i
            \/ \E j \in 1..(i - 1) : f[j] = j /\ f[i] = j /\ subs[j] = subs[i]}

AuditIdle ==
    /\ submissionValues = <<>>
    /\ objId = <<>>
    /\ round = 0
    /\ roundTime = 0
    /\ pc = "idle"
    /\ idx = 1
    /\ validSubmissions = <<>>
    /\ peersUsed = <<>>
    /\ result = <<>>

ValidateIdle ==
    /\ nodeData = BareReport("e1")
    /\ otherSubmissions = <<>>
    /\ vpc = "idle"
    /\ vPromise = Rejected

MedianIdle ==
    /\ numbers = <<>>
    /\ mpc = "idle"
    /\ median = NaN

Init ==
    /\ round \in Rounds
    /\ roundTime \in RoundTimes
    /\ submissionValues \in SeqsUpTo(Submissions(round, roundTime), MaxSubs)
    /\ objId \in Identities(submissionValues)
    /\ pc = "loop"
    /\ idx = 1
    /\ validSubmissions = <<>>
    /\ peersUsed = <<>>
    /\ result = <<>>
    /\ ValidateIdle
    /\ MedianIdle
    /\ RestIdle

Next ==
    \/ LoopSkipStructure
    \/ LoopSkipWindow
    \/ LoopPush
    \/ ThrowNoValid
    \/ ScoreAndReturn

Spec == Init /\ [][Next]_vars

(***************************************************************************)
(* Audit.validateNodeData on its own: one report against the submissions   *)
(* of up to MaxPeers peers.                                                *)
(***************************************************************************)
\* heights and TPS values on both sides of each tolerance band: 5% of 100 is
\* 5, 5% of 40 is 2, and below a median of 20 TPS the band is 1 TPS wide
PeerHeights == {0, 100, 101, 150}
PeerTps == {0, 40}
NodeHeights == {0, 95, 100, 101, 105, 106, 150}
NodeTps == {0, 1, 2, 42, 43}

PeerSubmission(nodes) ==
    [isNull |-> FALSE, submitter |-> "B", timestamp |-> Missing,
     nodesKind |-> "array", nodes |-> nodes]

PeerSubmissions ==
    {PeerSubmission(<<Report("e1", bh, t)>>) : bh \in PeerHeights, t \in PeerTps}
    \cup {PeerSubmission(<<Report("e2", 100, 40)>>),
          PeerSubmission(<<BareReport("e1")>>)}

NodeReports ==
    {Report("e1", bh, t) : bh \in NodeHeights, t \in NodeTps}
    \cup {BareReport("e1")}

ValidateCall ==
    /\ vpc = "call"
    /\ vPromise' = validateNodeData(nodeData, otherSubmissions)
    /\ vpc' = "settled"
    /\ UNCHANGED <<nodeData, otherSubmissions>>
    /\ UNCHANGED <<auditVars, medianVars, restVars>>

InitValidate ==
    /\ nodeData \in NodeReports
    /\ otherSubmissions \in SeqsUpTo(PeerSubmissions, MaxPeers)
    /\ vpc = "call"
    /\ vPromise = Rejected
    /\ AuditIdle
    /\ MedianIdle
    /\ RestIdle

NextValidate == ValidateCall

SpecValidate == InitValidate /\ [][NextValidate]_vars

(***************************************************************************)
(* Audit.getMedian on its own.                                             *)
(***************************************************************************)
MedianInputs == {-3, -1, 0, 2, 7}

\* numbers.sort(...) without slice(): the argument itself is sorted
NumbersAfterCall_InPlace(nums) == Sort(nums)

\* the caller's array after the call: line 272 sorts the copy that slice()
\* makes, and nothing else writes to the argument
NumbersAfterCall(nums) == nums

GetMedianCall ==
    /\ mpc = "call"
    /\ median' = getMedian(numbers)
    /\ mpc' = "returned"
    /\ numbers' = NumbersAfterCall(numbers)
    /\ UNCHANGED <<auditVars, validateVars, restVars>>

InitMedian ==
    /\ numbers \in SeqsUpTo(MedianInputs, MaxLen)
    /\ mpc = "call"
    /\ median = NaN
    /\ AuditIdle
    /\ ValidateIdle
    /\ RestIdle

NextMedian == GetMedianCall

SpecMedian == InitMedian /\ [][NextMedian]_vars

(***************************************************************************)
(* One call of any of the three operations of the auditor.                 *)
(***************************************************************************)
InitAuditor == Init \/ InitValidate \/ InitMedian

NextAuditor == Next \/ NextValidate \/ NextMedian

SpecAuditor == InitAuditor /\ [][NextAuditor]_vars

(***************************************************************************)
(* Audit.audit called a second time with the same arguments, the same      *)
(* objects and the same getRoundTime value.                                *)
(***************************************************************************)
\* a list of surviving submissions kept from one call to the next
NewValidSubmissions_Kept == validSubmissions

\* line 285: const validSubmissions = [], a new array in every call
NewValidSubmissions == <<>>

CallAgain ==
    /\ calls = 1
    /\ pc \in {"returned", "thrown"}
    /\ firstOutcome' = [pc |-> pc, result |-> result]
    /\ calls' = 2
    /\ pc' = "loop"
    /\ idx' = 1
    /\ validSubmissions' = NewValidSubmissions
    /\ peersUsed' = <<>>
    /\ result' = <<>>
    /\ UNCHANGED <<submissionValues, objId, round, roundTime>>
    /\ UNCHANGED <<validateVars, medianVars, componentVars>>

NextTwice == Next \/ CallAgain

SpecTwice == Init /\ [][NextTwice]_vars

(***************************************************************************)
(* The collectors: checkNodeStatus of NodeMetrics (src/unnamed/part_003),  *)
(* of the PulseChain task (src/src/task/1-task.ts) and of the K2 network   *)
(* monitor (src/src/task/koii-network-pond-pioneers.js).  A request fails  *)
(* when its promise is rejected; `failing` holds the requests that are     *)
(* rejected if the collector gets to issue them.  A report is modelled by  *)
(* its isResponding flag and the requests whose answers populate it.       *)
(***************************************************************************)
AuditorIdle == AuditIdle /\ ValidateIdle /\ MedianIdle /\ RepeatIdle

\* NodeMetrics.checkNodeStatus: the five requests of the Promise.all of
\* lines 53-59, then lines 61 and 76
NodeMetricsFirst ==
    {"getSlot", "getSupply", "fetchHealth", "getVersion", "getRecentPerformanceSamples"}
NodeMetricsRequests == NodeMetricsFirst \cup {"getConfirmedBlock", "getClusterNodes"}

\* the PulseChain checkNodeStatus: the Promise.all of lines 27-31, then line 34
PulseFirst == {"getBlockNumber", "getGasPrice", "getPeerCount"}
PulseRequests == PulseFirst \cup {"getBlock"}

\* the monitor's checkNodeStatus: the requests of lines 73-82 that carry their
\* own catch, the /health request of line 53 and the getSlot awaited at line 75
MonitorCaught ==
    {"getSlot", "getEpochInfo", "getBlockTime", "getSupply", "getInflationRate",
     "getRecentPerformanceSamples", "getVersion", "getClusterNodes",
     "getBlockProduction", "getVoteAccounts"}
MonitorRequests == MonitorCaught \cup {"fetchHealth", "getSlotForBlockTime"}

Variants == {"NodeMetrics", "PulseChain", "Monitor"}

Requests(v) ==
    IF v = "NodeMetrics" THEN NodeMetricsRequests
    ELSE IF v = "PulseChain" THEN PulseRequests
    ELSE MonitorRequests

Responding(populated, health) ==
    [isResponding |-> TRUE, populated |-> populated, health |-> health]

\* getClusterNodes with a catch of its own, as in the monitor
checkNodeStatus_CaughtPeers(fail, ok) ==
    IF NodeMetricsFirst \cap fail # {} THEN NotResponding
    ELSE IF "getConfirmedBlock" \in fail THEN NotResponding
    ELSE Responding(NodeMetricsRequests \ fail,
                    IF ok THEN "healthy" ELSE "unhealthy")

\* part_003, lines 42-96: any rejection inside the try block ends in the
\* catch block, which returns the sentinel
checkNodeStatus(fail, ok) ==
    IF NodeMetricsFirst \cap fail # {} THEN NotResponding
    ELSE IF "getConfirmedBlock" \in fail THEN NotResponding
    ELSE IF "getClusterNodes" \in fail THEN NotResponding
    ELSE Responding(NodeMetricsRequests, IF ok THEN "healthy" ELSE "unhealthy")

\* 1-task.ts, lines 21-57
checkNodeStatusPulse(fail) ==
    IF PulseFirst \cap fail # {} THEN NotResponding
    ELSE IF "getBlock" \in fail THEN NotResponding
    ELSE Responding(PulseRequests, "none")

\* koii-network-pond-pioneers.js, lines 49-172: a /health request that is
\* rejected or answered with an error status throws at line 55, a rejected
\* getSlot awaited at line 75 throws there; every other rejection is replaced
\* by null or [] and the report is returned with isResponding true
checkNodeStatusMonitor(fail, ok) ==
    IF "fetchHealth" \in fail \/ ~ok THEN NotResponding
    ELSE IF "getSlotForBlockTime" \in fail THEN NotResponding
    ELSE Responding(MonitorCaught \ fail, "none")

CheckNodeStatusCall ==
    /\ cpc = "call"
    /\ report' = IF variant = "NodeMetrics" THEN checkNodeStatus(failing, healthOk)
                 ELSE IF variant = "PulseChain" THEN checkNodeStatusPulse(failing)
                 ELSE checkNodeStatusMonitor(failing, healthOk)
    /\ cpc' = "done"
    /\ UNCHANGED <<variant, failing, healthOk>>
    /\ UNCHANGED notCollect

InitCollect ==
    /\ variant \in Variants
    /\ failing \in SUBSET Requests(variant)
    /\ healthOk \in IF variant = "PulseChain" THEN {TRUE} ELSE BOOLEAN
    /\ cpc = "call"
    /\ report = NotResponding
    /\ AuditorIdle
    /\ AllIdleBut("collect")

NextCollect == CheckNodeStatusCall

SpecCollect == InitCollect /\ [][NextCollect]_vars

(***************************************************************************)
(* One run of task(round) (part_003 lines 186-238, 1-task.ts lines 59-96). *)
(* The checks of the endpoints are started together and run concurrently:  *)
(* each is at its first await (the Promise.all of its requests), at a      *)
(* later one, or has settled with a report ("ok") or the sentinel.  A step *)
(* of one check is one of its awaits resuming; the steps of different      *)
(* checks interleave freely.                                               *)
(***************************************************************************)
K2_NODES == <<"https://k2-mainnet.koii.live", "https://k2-testnet.koii.live">>

PULSECHAIN_NODES ==
    <<"https://rpc.pulsechain.com", "https://pulsechain.publicnode.com",
      "https://rpc-pulsechain.g4mm4.io">>

TaskVariants == {"K2", "PulseChain"}

Endpoints(v) == IF v = "K2" THEN K2_NODES ELSE PULSECHAIN_NODES

\* the awaits of one checkNodeStatus, in order
Awaits(v) ==
    IF v = "K2" THEN <<"requests", "getConfirmedBlock", "getClusterNodes">>
    ELSE <<"requests", "getBlock">>

Settled(c) == c \in {"ok", "sentinel"}

AfterAwait(v, c) ==
    LET k == CHOOSE j \in 1..Len(Awaits(v)) : Awaits(v)[j] = c
    IN IF k = Len(Awaits(v)) THEN "ok" ELSE Awaits(v)[k + 1]

\* the answer to the await of check i arrives
CheckAwaitResolves(i) ==
    /\ tpc = "checking"
    /\ ~Settled(checks[i])
    /\ checks' = [checks EXCEPT ![i] = AfterAwait(taskVariant, checks[i])]
    /\ settled' = IF Settled(checks'[i]) THEN Append(settled, i) ELSE settled
    /\ UNCHANGED <<taskVariant, tpc, taskNodes, cause>>
    /\ UNCHANGED notTask

\* the await of check i is rejected: the catch block returns the sentinel
CheckAwaitRejects(i) ==
    /\ tpc = "checking"
    /\ ~Settled(checks[i])
    /\ checks' = [checks EXCEPT ![i] = "sentinel"]
    /\ settled' = Append(settled, i)
    /\ UNCHANGED <<taskVariant, tpc, taskNodes, cause>>
    /\ UNCHANGED notTask

ReportOf(i) ==
    [endpoint |-> Endpoints(taskVariant)[i], isResponding |-> checks[i] = "ok"]

\* the reports in the order the checks settled
Results_CompletionOrder == [k \in 1..Len(settled) |-> ReportOf(settled[k])]

\* Promise.all resolves to the values of the promises in the order of the
\* array it was given
Results == [i \in 1..Len(checks) |-> ReportOf(i)]

\* await Promise.all(...) resumes once every check has settled; the summary
\* is built and handed to the host
AllChecksSettled ==
    /\ tpc = "checking"
    /\ \A i \in 1..Len(checks) : Settled(checks[i])
    /\ taskNodes' = Results
    /\ tpc' = "storing"
    /\ UNCHANGED <<taskVariant, checks, settled, cause>>
    /\ UNCHANGED notTask

\* the host stores the summary
StoreResolves ==
    /\ tpc = "storing"
    /\ tpc' = "stored"
    /\ UNCHANGED <<taskVariant, checks, settled, taskNodes, cause>>
    /\ UNCHANGED notTask

\* the host rejects: the catch block of task rethrows
StoreRejects ==
    /\ tpc = "storing"
    /\ tpc' = "failed"
    /\ cause' = "host"
    /\ UNCHANGED <<taskVariant, checks, settled, taskNodes>>
    /\ UNCHANGED notTask

InitTask ==
    /\ taskVariant \in TaskVariants
    /\ checks = [i \in 1..Len(Endpoints(taskVariant)) |-> "requests"]
    /\ settled = <<>>
    /\ tpc = "checking"
    /\ taskNodes = <<>>
    /\ cause = "none"
    /\ AuditorIdle
    /\ AllIdleBut("task")

NextTask ==
    \/ \E i \in 1..Len(checks) : CheckAwaitResolves(i)
    \/ \E i \in 1..Len(checks) : CheckAwaitRejects(i)
    \/ AllChecksSettled
    \/ StoreResolves
    \/ StoreRejects

SpecTask == InitTask /\ [][NextTask]_vars

(***************************************************************************)
(* Scoring (part_003 lines 10-35 and 98-177) and the rounds of one Task    *)
(* object (lines 186-238).  Weights are kept in hundredths, so a weighted  *)
(* score is kept times 100; for every combination of the metric scores the *)
(* code can produce, Math.round of the double sum equals the rounding of   *)
(* the exact sum.                                                          *)
(***************************************************************************)
\* weights that do not sum to 1
Weights_Heavy ==
    [responseTime |-> 20, blockHeight |-> 25, tps |-> 20, health |-> 20, peers |-> 35]

Weights ==
    [responseTime |-> 20, blockHeight |-> 25, tps |-> 20, health |-> 20, peers |-> 15]

SCORING ==
    [weights |-> Weights,
     thresholds |->
        [responseTime |-> [excellent |-> 1000, good |-> 2000, fair |-> 3000,
                           poor |-> 5000],
         tps |-> [excellent |-> 50, good |-> 30, fair |-> 10, poor |-> 1],
         minPeers |-> 3]]

\* what checkNodeStatus resolves to, with the fields task and validateMetrics read
NodeStatus(ep, bh, rt, t, h, peers) ==
    [endpoint |-> ep, blockHeight |-> bh, responseTime |-> rt, tps |-> t,
     health |-> h, peerCount |-> peers, isResponding |-> TRUE]

\* the record of the catch block, lines 78-95
Sentinel(ep) ==
    [endpoint |-> ep, blockHeight |-> 0, responseTime |-> -1, tps |-> 0,
     health |-> "offline", peerCount |-> 0, isResponding |-> FALSE]

\* lines 98-135; `last` is this.lastCheck
calculateMetricScore(metric, value, last) ==
    CASE metric = "responseTime" ->
            IF value < SCORING.thresholds.responseTime.excellent THEN 100
            ELSE IF value < SCORING.thresholds.responseTime.good THEN 80
            ELSE IF value < SCORING.thresholds.responseTime.fair THEN 60
            ELSE IF value < SCORING.thresholds.responseTime.poor THEN 40
            ELSE 20
      [] metric = "tps" ->
            IF value > SCORING.thresholds.tps.excellent THEN 100
            ELSE IF value > SCORING.thresholds.tps.good THEN 80
            ELSE IF value > SCORING.thresholds.tps.fair THEN 60
            ELSE IF value > SCORING.thresholds.tps.poor THEN 40
            ELSE 20
      [] metric = "health" -> IF value = "healthy" THEN 100 ELSE 0
      [] metric = "blockHeight" ->
            IF last = NoCheck THEN 80
            ELSE IF last.blockHeight = 0 THEN 80
            ELSE LET blockDiff == value - last.blockHeight
                 IN IF blockDiff <= 0 THEN 40
                    ELSE IF blockDiff < 5 THEN 60
                    ELSE IF blockDiff < 10 THEN 80
                    ELSE 100
      [] metric = "peers" ->
            IF value >= SCORING.thresholds.minPeers * 2 THEN 100
            ELSE IF value >= SCORING.thresholds.minPeers THEN 80
            ELSE IF 2 * value >= SCORING.thresholds.minPeers THEN 50
            ELSE 20
      [] OTHER -> 0

\* Math.round of x / 100
MathRound100(x) == (x + 50) \div 100

\* lines 137-177
validateMetrics(metrics, last) ==
    LET scores ==
            [responseTime |-> calculateMetricScore("responseTime", metrics.responseTime, last),
             blockHeight |-> calculateMetricScore("blockHeight", metrics.blockHeight, last),
             tps |-> calculateMetricScore("tps", metrics.tps, last),
             health |-> calculateMetricScore("health", metrics.health, last),
             peers |-> calculateMetricScore("peers", metrics.peerCount, last)]
        weightedScore ==
              scores.responseTime * SCORING.weights.responseTime
            + scores.blockHeight * SCORING.weights.blockHeight
            + scores.tps * SCORING.weights.tps
            + scores.health * SCORING.weights.health
            + scores.peers * SCORING.weights.peers
    IN  metrics @@ [scores |-> scores,
                    weightedScore |-> Rat(weightedScore, 100),
                    score |-> MathRound100(weightedScore)]

RECURSIVE SumScores(_)
SumScores(validated) ==
    IF validated = <<>> THEN 0
    ELSE validated[1].score + SumScores(Tail(validated))

\* lines 202-204
NetworkScore(validated) == NumDiv(SumScores(validated), Len(validated))

\* lines 195-200
ValidatedResults(res, last) == [i \in 1..Len(res) |-> validateMetrics(res[i], last)]

\* lines 207-222
SubmissionData ==
    [round |-> taskRound,
     networkScore |-> networkScore,
     nodes |-> [i \in 1..Len(validatedResults) |->
                   [endpoint |-> validatedResults[i].endpoint,
                    score |-> validatedResults[i].score,
                    metrics |-> [blockHeight |-> validatedResults[i].blockHeight,
                                 tps |-> validatedResults[i].tps,
                                 health |-> validatedResults[i].health,
                                 responseTime |-> validatedResults[i].responseTime]]]]

\* the result of the last endpoint kept instead
NewLastCheck_LastEndpoint(res) == res[Len(res)]

\* line 230: this.nodeMetrics.lastCheck = results[0]
NewLastCheck(res) == res[1]

\* the host accepts the submission: lastCheck becomes the first result
TaskReturns(r, res) ==
    /\ spc \in {"ready", "returned", "thrown"}
    /\ taskRound' = r
    /\ results' = res
    /\ validatedResults' = ValidatedResults(res, lastCheck)
    /\ networkScore' = NetworkScore(validatedResults')
    /\ lastCheck' = NewLastCheck(res)
    /\ spc' = "returned"
    /\ UNCHANGED notScore

\* the host rejects it: task rethrows before line 230
TaskThrows(r, res) ==
    /\ spc \in {"ready", "returned", "thrown"}
    /\ taskRound' = r
    /\ results' = res
    /\ validatedResults' = ValidatedResults(res, lastCheck)
    /\ networkScore' = NetworkScore(validatedResults')
    /\ spc' = "thrown"
    /\ UNCHANGED lastCheck
    /\ UNCHANGED notScore

TaskRounds == {1}

\* reports of the first endpoint: every combination of the best and the worst
\* level of responseTime, tps and peerCount with both healths and a block
\* height that is zero, stalled or advancing, then each remaining level of
\* each metric on its own, then the sentinel
FirstResults ==
    LET ep == K2_NODES[1]
    IN  {NodeStatus(ep, bh, rt, t, h, p) :
            bh \in {0, 100, 110}, rt \in {999, 5000}, t \in {51, 1},
            h \in {"healthy", "unhealthy"}, p \in {6, 1}}
        \cup {NodeStatus(ep, 110, rt, 51, "healthy", 6) : rt \in {0, 1000, 2000, 3000}}
        \cup {NodeStatus(ep, 110, 999, t, "healthy", 6) : t \in {0, 50, 30, 10}}
        \cup {NodeStatus(ep, 110, 999, 51, "healthy", p) : p \in {0, 2, 3}}
        \cup {NodeStatus(ep, bh, 999, 51, "healthy", 6) : bh \in {104, 109}}
        \cup {Sentinel(ep)}

SecondResults ==
    LET ep == K2_NODES[2]
    IN  {NodeStatus(ep, 110, 999, 51, "healthy", 6), Sentinel(ep)}

InitScore ==
    /\ lastCheck = NoCheck
    /\ taskRound = 0
    /\ results = <<>>
    /\ validatedResults = <<>>
    /\ networkScore = NaN
    /\ spc = "ready"
    /\ AuditorIdle
    /\ AllIdleBut("score")

NextScore ==
    \E r \in TaskRounds, first \in FirstResults, second \in SecondResults :
        \/ TaskReturns(r, <<first, second>>)
        \/ TaskThrows(r, <<first, second>>)

SpecScore == InitScore /\ [][NextScore]_vars

(***************************************************************************)
(* Submission (part_001).  A JavaScript value is kept by its type: a       *)
(* number (possibly NaN), a string, or a property that is absent.          *)
(***************************************************************************)
\* a number is the fraction n / den, den > 0
JsNumber(n) == [type |-> "number", nan |-> FALSE, n |-> n, den |-> 1]
JsNaN == [type |-> "number", nan |-> TRUE, n |-> 0, den |-> 1]
JsString == [type |-> "string", nan |-> FALSE, n |-> 0, den |-> 1]
JsAbsent == [type |-> "undefined", nan |-> FALSE, n |-> 0, den |-> 1]

\* typeof v !== 'number', v < k, v > k, !v
NotNumber(v) == v.type # "number"
Below(v, k) == v.type = "number" /\ ~v.nan /\ v.n < k * v.den
Above(v, k) == v.type = "number" /\ ~v.nan /\ v.n > k * v.den
Falsy(v) == v.type = "undefined" \/ (v.type = "number" /\ (v.nan \/ v.n = 0))

\* lines 6-22
validateNode(node) ==
    IF ~node.isObject THEN FALSE
    ELSE IF ~node.hasMetrics THEN FALSE
    ELSE IF \E m \in {"blockHeight", "tps", "health", "responseTime"} :
                node.metrics[m].type = "undefined" THEN FALSE
    ELSE IF NotNumber(node.metrics.blockHeight) \/ Below(node.metrics.blockHeight, 0)
        THEN FALSE
    ELSE IF NotNumber(node.metrics.tps) \/ Below(node.metrics.tps, 0) THEN FALSE
    ELSE IF NotNumber(node.metrics.responseTime) \/ Below(node.metrics.responseTime, 0)
        THEN FALSE
    ELSE node.metrics.health.type = "string"

\* Date.now() at line 49
Now == 4000000

\* lines 24-59
validateSubmission(data) ==
    IF data = NoData THEN FALSE
    ELSE IF Falsy(data.timestamp) \/ Falsy(data.round) \/ ~data.nodesIsArray THEN FALSE
    ELSE IF \E i \in 1..Len(data.nodes) : ~validateNode(data.nodes[i]) THEN FALSE
    ELSE IF \/ NotNumber(data.networkScore)
            \/ Below(data.networkScore, 0)
            \/ Above(data.networkScore, 100) THEN FALSE
    ELSE IF Below(data.timestamp, Now - 3600000) \/ Above(data.timestamp, Now) THEN FALSE
    ELSE TRUE

\* lines 61-83
SubmitTaskCall ==
    /\ subPc = "call"
    /\ IF storedData = NoData
       THEN /\ subPc' = "thrown"
            /\ UNCHANGED <<isValid, returnedData>>
       ELSE /\ isValid' = validateSubmission(storedData)
            /\ subPc' = IF isValid' THEN "returned" ELSE "thrown"
            /\ returnedData' = IF isValid' THEN storedData ELSE returnedData
    /\ UNCHANGED storedData
    /\ UNCHANGED notSubmission

NodeMetricValues(h, bh, t, rt) ==
    [isObject |-> TRUE, hasMetrics |-> TRUE,
     metrics |-> [blockHeight |-> bh, tps |-> t, health |-> h, responseTime |-> rt]]

NoMetricValues ==
    [blockHeight |-> JsAbsent, tps |-> JsAbsent, health |-> JsAbsent,
     responseTime |-> JsAbsent]

\* a well-formed node report, the reports that differ from it in one metric,
\* a report without metrics and a node that is null
StoredNodes ==
    LET good == JsNumber(7)
        bad == {JsAbsent, JsString, JsNumber(-1), JsNaN}
    IN  {NodeMetricValues(JsString, good, good, good),
         NodeMetricValues(JsString, good, good, JsNumber(0)),
         NodeMetricValues(JsAbsent, good, good, good),
         NodeMetricValues(good, good, good, good),
         [isObject |-> TRUE, hasMetrics |-> FALSE, metrics |-> NoMetricValues],
         [isObject |-> FALSE, hasMetrics |-> FALSE, metrics |-> NoMetricValues]}
        \cup {NodeMetricValues(JsString, v, good, good) : v \in bad}
        \cup {NodeMetricValues(JsString, good, v, good) : v \in bad}
        \cup {NodeMetricValues(JsString, good, good, v) : v \in bad}

StoredTimestamps ==
    {JsAbsent, JsNumber(Now - 3600001), JsNumber(Now - 3600000), JsNumber(Now),
     JsNumber(Now + 1)}

StoredRounds == {JsNumber(0), JsNumber(1)}

StoredScores ==
    {JsAbsent, JsNumber(-1), JsNumber(0), JsNumber(100), JsNumber(101), JsNaN}

StoredSubmissions ==
    {NoData}
    \cup [isNull : {FALSE}, timestamp : StoredTimestamps, round : StoredRounds,
          nodesIsArray : {TRUE}, nodes : SeqsUpTo(StoredNodes, MaxNodes),
          networkScore : StoredScores]
    \cup [isNull : {FALSE}, timestamp : StoredTimestamps, round : StoredRounds,
          nodesIsArray : {FALSE}, nodes : {<<>>}, networkScore : StoredScores]

InitSubmission ==
    /\ storedData \in StoredSubmissions
    /\ isValid = FALSE
    /\ returnedData = NoData
    /\ subPc = "call"
    /\ AuditorIdle
    /\ AllIdleBut("submission")

NextSubmission == SubmitTaskCall

SpecSubmission == InitSubmission /\ [][NextSubmission]_vars

(***************************************************************************)
(* The PulseChain audit (part_000 lines 51-107).  The submission value is  *)
(* kept by what JSON.parse makes of it: a string that does not parse, a    *)
(* value that is no object, an object without nodes, with nodes that are   *)
(* no array or without networkStats, or a summary with both.               *)
(***************************************************************************)
\* parseFloat of the gasPrice strings of the model
ParseFloat(str) ==
    CASE str = "0" -> Rat(0, 1)
      [] str = "0.1" -> Rat(1, 10)
      [] str = "5" -> Rat(5, 1)
      [] str = "10000" -> Rat(10000, 1)
      [] str = "10000.1" -> Rat(100001, 10)
      [] OTHER -> NaN

\* price >= 0.1 && price <= 10000
ReasonableGasPrice(price) ==
    /\ ~price.nan
    /\ NumLe(Rat(1, 10), price)
    /\ NumLe(price, Rat(10000, 1))

\* a looser bar
ValidThreshold_Low == Rat(6, 10)

\* line 90
ValidThreshold == Rat(7, 10)

\* reading status.nodes.length, status.networkStats.activeNodes or
\* node.isResponding throws a TypeError, as does JSON.parse
AuditThrows(v) ==
    \/ v.shape \in {"unparseable", "notObject", "noNodes", "nodesNotArray",
                    "noNetworkStats"}
    \/ \E i \in 1..Len(v.nodes) : v.nodes[i].isNull

RespondingNodes(v) == {i \in 1..Len(v.nodes) : v.nodes[i].isResponding}

\* lines 56-83
Checks(v) ==
    [hasAllNodes |-> Len(v.nodes) = 3,
     hasActiveNodes |-> Above(v.activeNodes, 0),
     validBlockHeights |-> \A i \in RespondingNodes(v) : v.nodes[i].blockHeight > 0,
     validGasPrices |->
        \A i \in RespondingNodes(v) : ReasonableGasPrice(ParseFloat(v.nodes[i].gasPrice)),
     validTimestamp |->
        /\ v.timestamp.type = "number"
        /\ Abs(Now - v.timestamp.n) < 3600000,
     validPeerCounts |-> \A i \in RespondingNodes(v) : v.nodes[i].peerCount > 0]

\* lines 86-87
PassedChecks(c) == Cardinality({k \in DOMAIN c : c[k] = TRUE})

\* lines 51-107
AuditCall ==
    /\ ppc = "call"
    /\ IF AuditThrows(submissionValue)
       THEN /\ pulseResult' = Rejection
            /\ UNCHANGED pulseChecks
       ELSE /\ pulseChecks' = Checks(submissionValue)
            /\ LET score == Rat(PassedChecks(pulseChecks'), 6)
               IN  pulseResult' = [isValid |-> NumLe(ValidThreshold, score),
                                   score |-> score]
    /\ ppc' = "returned"
    /\ UNCHANGED submissionValue
    /\ UNCHANGED notPulse

SummaryNode(responding, bh, gas, peers) ==
    [isNull |-> FALSE, isResponding |-> responding, blockHeight |-> bh,
     gasPrice |-> gas, peerCount |-> peers]

\* the sentinel of the PulseChain collector, 1-task.ts lines 47-55
PulseSentinel == SummaryNode(FALSE, 0, "0", 0)

SummaryNodes ==
    {PulseSentinel,
     SummaryNode(TRUE, 0, "5", 3),
     SummaryNode(TRUE, 5, "5", 0),
     [isNull |-> TRUE, isResponding |-> FALSE, blockHeight |-> 0, gasPrice |-> "0",
      peerCount |-> 0]}
    \cup {SummaryNode(TRUE, 5, gas, 3) :
            gas \in {"0", "0.1", "5", "10000", "10000.1", "abc"}}

SummaryTimestamps == {JsAbsent, JsNumber(Now - 3600000), JsNumber(Now - 3599999)}

SummaryActiveNodes == {JsAbsent, JsNumber(0), JsNumber(1)}

SubmissionValues ==
    [shape : {"unparseable", "notObject", "noNodes", "nodesNotArray", "noNetworkStats"},
     nodes : {<<>>}, activeNodes : {JsAbsent}, timestamp : {JsAbsent},
     hasRoundNumber : {FALSE}]
    \cup [shape : {"summary"}, nodes : SeqsUpTo(SummaryNodes, MaxSummaryNodes),
          activeNodes : SummaryActiveNodes, timestamp : SummaryTimestamps,
          hasRoundNumber : BOOLEAN]

InitPulse ==
    /\ submissionValue \in SubmissionValues
    /\ pulseChecks = NoChecks
    /\ pulseResult = Rejection
    /\ ppc = "call"
    /\ AuditorIdle
    /\ AllIdleBut("pulse")

NextPulse == AuditCall

SpecPulse == InitPulse /\ [][NextPulse]_vars

(***************************************************************************)
(* The PulseChain task and submission(roundNumber) against the host store  *)
(* (1-task.ts lines 59-96, part_003 lines 340-362).  A key is the template *)
(* string the code builds, kept as its prefix and the round number; the    *)
(* store starts empty and only storeSet writes to it.                      *)
(***************************************************************************)
StoreRounds == {0, 1, 2}

\* JSON.stringify(summary) of two different summaries
Summaries == {"summary-a", "summary-b"}

\* what storeGet resolves to for a key never written
NoValue == "null"

\* `pulsechain_status_${roundNumber}`, line 83 of 1-task.ts
TaskKey(r) == <<"pulsechain_status", r>>

\* `node_status_${roundNumber}`, line 343 of part_003
SubmissionKey(r) == <<"node_status", r>>

StoreKeys == {TaskKey(r) : r \in StoreRounds} \cup {SubmissionKey(r) : r \in StoreRounds}

\* task(r) with storeSet resolving or rejecting (a failing endpoint check
\* cannot make it fail)
PulseTask(r, summary, storeSetOk) ==
    /\ hostStore' = IF storeSetOk THEN [hostStore EXCEPT ![TaskKey(r)] = summary]
                    ELSE hostStore
    /\ lastOp' = [op |-> "task", round |-> r, stored |-> storeSetOk]
    /\ UNCHANGED hostSubmissions
    /\ UNCHANGED notHost

\* submission(r) with storeGet and submitTask resolving or rejecting
SubmissionCall(r, storeGetOk, submitTaskOk) ==
    LET value == hostStore[SubmissionKey(r)]
        submits == storeGetOk /\ value # NoValue /\ submitTaskOk
    IN  /\ hostSubmissions' =
               IF submits
               THEN hostSubmissions \cup {[roundNumber |-> r, taskOutput |-> value]}
               ELSE hostSubmissions
        /\ lastOp' = [op |-> "submission", round |-> r,
                      hostFailed |-> ~storeGetOk \/ (value # NoValue /\ ~submitTaskOk),
                      returned |-> submits]
        /\ UNCHANGED hostStore
        /\ UNCHANGED notHost

InitHost ==
    /\ hostStore = [k \in StoreKeys |-> NoValue]
    /\ hostSubmissions = {}
    /\ lastOp = NoOp
    /\ AuditorIdle
    /\ AllIdleBut("host")

NextHost ==
    \/ \E r \in StoreRounds, summary \in Summaries, ok \in BOOLEAN :
           PulseTask(r, summary, ok)
    \/ \E r \in StoreRounds, getOk \in BOOLEAN, submitOk \in BOOLEAN :
           SubmissionCall(r, getOk, submitOk)

SpecHost == InitHost /\ [][NextHost]_vars

(***************************************************************************)
(* Submission.validateSubmission applied to the submission data Task.task  *)
(* has built, some time after its timestamp was taken (part_003 lines      *)
(* 207-222, part_001 lines 6-59).                                          *)
(***************************************************************************)
AcceptRounds == {0, 1, 2}

\* milliseconds between the timestamp of the data and its validation
ValidationAges == {0, 3600000, 3600001}

\* the first endpoint answers with ordinary values, with every value zero,
\* or not at all
AcceptFirstResults ==
    {NodeStatus(K2_NODES[1], 110, 999, 51, "healthy", 6),
     NodeStatus(K2_NODES[1], 0, 0, 0, "unhealthy", 0),
     Sentinel(K2_NODES[1])}

\* a number of the task as a value validateSubmission looks at
JsRational(x) ==
    IF x.nan THEN JsNaN
    ELSE [type |-> "number", nan |-> FALSE, n |-> x.num, den |-> x.den]

\* the submission data of lines 207-222 as validateSubmission sees it `age`
\* milliseconds after Date.now() of line 208
BuiltSubmission(data, age) ==
    [isNull |-> FALSE,
     timestamp |-> JsNumber(Now - age),
     round |-> JsNumber(data.round),
     nodesIsArray |-> TRUE,
     nodes |-> [i \in 1..Len(data.nodes) |->
                   NodeMetricValues(JsString,
                                    JsNumber(data.nodes[i].metrics.blockHeight),
                                    JsNumber(data.nodes[i].metrics.tps),
                                    JsNumber(data.nodes[i].metrics.responseTime))],
     networkScore |-> JsRational(data.networkScore)]

\* validateSubmission(submissionData) of the data of the last round
ValidateBuilt(age) ==
    /\ spc \in {"returned", "thrown"}
    /\ validation' = [state |-> "done", round |-> taskRound, results |-> results,
                      age |-> age,
                      accepted |-> validateSubmission(BuiltSubmission(SubmissionData, age))]
    /\ UNCHANGED scoreVars
    /\ UNCHANGED notAccept

InitAccept == InitScore

NextAccept ==
    \/ \E r \in AcceptRounds, first \in AcceptFirstResults, second \in SecondResults :
           \/ TaskReturns(r, <<first, second>>)
           \/ TaskThrows(r, <<first, second>>)
    \/ \E age \in ValidationAges : ValidateBuilt(age)

SpecAccept == InitAccept /\ [][NextAccept]_vars

(***************************************************************************)
(* The K2 network monitor loop (part_002).  One iteration of monitorNodes  *)
(* is one step: the checks of the endpoints, printStatusUpdate with the    *)
(* previousCheck of that moment, and the assignment at its end.            *)
(***************************************************************************)
\* CONFIG.alertThresholds, lines 7-12; maxTransactionCost is 0.1
AlertThresholds == [responseTime |-> 3000, maxTransactionCost |-> Rat(1, 10)]

\* what checkNodeStatus of part_002 resolves to (lines 48-61), by the fields
\* detectIssues reads
MonitorStatus(ep, bh, rt, t, fee, h) ==
    [endpoint |-> ep, isResponding |-> TRUE, blockHeight |-> bh, responseTime |-> rt,
     tps |-> t, averageFee |-> fee, health |-> h]

\* lines 64-77
MonitorSentinel(ep) ==
    [endpoint |-> ep, isResponding |-> FALSE, blockHeight |-> 0, responseTime |-> -1,
     tps |-> 0, averageFee |-> Int2Num(0), health |-> "offline"]

When(condition, issue) == IF condition THEN <<issue>> ELSE <<>>

\* lines 81-110; hasPrevious is the truthiness of previousStatus
detectIssues(currentStatus, hasPrevious, previousStatus) ==
    When(currentStatus.responseTime > AlertThresholds.responseTime, "High response time")
    \o (IF hasPrevious /\ currentStatus.isResponding
        THEN When(currentStatus.blockHeight = previousStatus.blockHeight,
                  "Blocks not advancing")
             \o When(/\ ~currentStatus.averageFee.nan
                     /\ ~NumLe(currentStatus.averageFee, AlertThresholds.maxTransactionCost),
                     "High transaction fees")
             \o When(/\ previousStatus.tps > 0
                     /\ 2 * currentStatus.tps < previousStatus.tps,
                     "TPS dropped by >50%")
        ELSE <<>>)
    \o When(currentStatus.health # "healthy", "Node health")

\* every node compared with the first node of the previous results
PreviousOf_First(prev, index) == prev[1]

\* line 141: previousResults[index]
PreviousOf(prev, index) == prev[index]

\* lines 140-174: the issues printed for each node
PrintedIssues(res, prev) ==
    [index \in 1..Len(res) |->
        IF res[index].isResponding
        THEN IF prev = NoPrevious
             THEN detectIssues(res[index], FALSE, res[index])
             ELSE detectIssues(res[index], TRUE, PreviousOf(prev, index))
        ELSE <<>>]

\* lines 183-185
MonitorIteration(res) ==
    /\ monPc \in {"start", "sleeping"}
    /\ monitorResults' = res
    /\ previousResults' = previousCheck
    /\ printedIssues' = PrintedIssues(res, previousCheck)
    /\ previousCheck' = res
    /\ monPc' = "sleeping"
    /\ UNCHANGED notMonitor

MonitorFirstResults ==
    LET ep == K2_NODES[1]
        free == Int2Num(0)
    IN  {MonitorStatus(ep, bh, 500, 10, free, "healthy") : bh \in {0, 100, 101}}
        \cup {MonitorStatus(ep, 100, 3001, 10, free, "healthy"),
              MonitorStatus(ep, 100, 500, 4, free, "healthy"),
              MonitorStatus(ep, 100, 500, 0, free, "healthy"),
              MonitorStatus(ep, 100, 500, 10, Int2Num(1), "healthy"),
              MonitorStatus(ep, 100, 500, 10, NaN, "healthy"),
              MonitorStatus(ep, 100, 500, 10, free, "unhealthy"),
              MonitorSentinel(ep)}

MonitorSecondResults ==
    LET ep == K2_NODES[2]
    IN  {MonitorStatus(ep, bh, 500, 10, Int2Num(0), "healthy") : bh \in {0, 100, 101}}
        \cup {MonitorSentinel(ep)}

InitMonitor ==
    /\ previousCheck = NoPrevious
    /\ monitorResults = <<>>
    /\ previousResults = NoPrevious
    /\ printedIssues = <<>>
    /\ monPc = "start"
    /\ AuditorIdle
    /\ AllIdleBut("monitor")

NextMonitor ==
    \E first \in MonitorFirstResults, second \in MonitorSecondResults :
        MonitorIteration(<<first, second>>)

SpecMonitor == InitMonitor /\ [][NextMonitor]_vars

(***************************************************************************)
(* What the specification says of the auditor, stated without the          *)
(* operators above.                                                        *)
(***************************************************************************)
Terminated == pc \in {"returned", "thrown"}

WindowLow == round * roundTime
WindowHigh == (round + 1) * roundTime

\* the submission passes the filter the audit applies: an object with a nodes
\* array whose timestamp does not compare below or above the window
Survives(s) ==
    /\ ~s.isNull
    /\ s.nodesKind = "array"
    /\ ~(s.timestamp.isNumber /\ s.timestamp.n < WindowLow)
    /\ ~(s.timestamp.isNumber /\ s.timestamp.n > WindowHigh)

Positions == [i \in 1..Len(submissionValues) |-> i]
SurvivorPositions == SelectSeq(Positions, LAMBDA i : Survives(submissionValues[i]))

\* the k-th smallest element of s, by counting
OrderStat(s, k) ==
    CHOOSE v \in Range(s) :
        /\ Cardinality({i \in 1..Len(s) : s[i] < v}) < k
        /\ Cardinality({i \in 1..Len(s) : s[i] <= v}) >= k

\* twice the order-statistic median of a non-empty sequence
TwiceMedian(s) ==
    IF Len(s) % 2 = 1
    THEN 2 * OrderStat(s, (Len(s) + 1) \div 2)
    ELSE OrderStat(s, Len(s) \div 2) + OrderStat(s, Len(s) \div 2 + 1)

\* the reports of the endpoint among the submissions `others`, the first of
\* each submission
PeerReports(endpoint, others) ==
    LET has(j) == \E m \in 1..Len(others[j].nodes) :
                      others[j].nodes[m].endpoint = endpoint
        first(j) == others[j].nodes[
                        CHOOSE m \in 1..Len(others[j].nodes) :
                            /\ others[j].nodes[m].endpoint = endpoint
                            /\ \A l \in 1..(m - 1) :
                                   others[j].nodes[l].endpoint # endpoint]
        js == SelectSeq([j \in 1..Len(others) |-> j], has)
    IN  [n \in 1..Len(js) |-> first(js[n])]

\* |N.blockHeight - medianBlockHeight| <= 0.05 * medianBlockHeight and
\* |N.tps - medianTps| <= max(0.05 * medianTps, 1), both sides times 40
WithinTolerance(node, peers) ==
    LET bh2 == TwiceMedian([i \in 1..Len(peers) |-> peers[i].metrics.blockHeight])
        tps2 == TwiceMedian([i \in 1..Len(peers) |-> peers[i].metrics.tps])
        tpsTol == IF tps2 > 40 THEN tps2 ELSE 40
    IN  /\ 20 * Abs(2 * node.metrics.blockHeight - bh2) <= bh2
        /\ 20 * Abs(2 * node.metrics.tps - tps2) <= tpsTol

\* the report is valid against its peers in the sense of the specification
ValidAgainstPeers(node, others) ==
    LET peers == PeerReports(node.endpoint, others)
    IN  /\ Len(peers) > 0
        /\ node.hasMetrics
        /\ \A i \in 1..Len(peers) : peers[i].hasMetrics
        /\ WithinTolerance(node, peers)

\* the surviving submissions other than the one at position i of the batch
OtherSurvivors(i) ==
    LET js == SelectSeq(SurvivorPositions, LAMBDA j : j # i)
    IN  [n \in 1..Len(js) |-> submissionValues[js[n]]]

\* a well-formed submission: an object with a nodes array, a numeric
\* timestamp and metrics in every node report
StructurallySound(s) ==
    /\ ~s.isNull
    /\ s.nodesKind = "array"
    /\ s.timestamp.isNumber
    /\ \A m \in 1..Len(s.nodes) : s.nodes[m].hasMetrics

\* every submission of the batch is well-formed and lies inside the window
\* [round * D, (round + 1) * D)
CleanBatch ==
    \A i \in 1..Len(submissionValues) :
        /\ StructurallySound(submissionValues[i])
        /\ WindowLow <= submissionValues[i].timestamp.n
        /\ submissionValues[i].timestamp.n < WindowHigh

ExpectedValidCount(i) ==
    Cardinality({m \in 1..Len(submissionValues[i].nodes) :
        ValidAgainstPeers(submissionValues[i].nodes[m], OtherSurvivors(i))})

(***************************************************************************)
(* C1  In a batch of well-formed submissions inside the window, the score  *)
(* audit returns for a submission S whose node reports all have a peer     *)
(* report is 100 * (node reports of S valid against the peer median of the *)
(* other surviving submissions) / (node reports of S): a report off its    *)
(* peer median by more than the tolerance lowers the score below 100.      *)
(***************************************************************************)
C1_ScoreIsValidFraction ==
    (pc = "returned" /\ CleanBatch) =>
        \A k \in 1..Len(validSubmissions) :
            LET i == validSubmissions[k]
                total == Len(submissionValues[i].nodes)
                nodes == submissionValues[i].nodes
            IN  (/\ total > 0
                 /\ \A m \in 1..total :
                        Len(PeerReports(nodes[m].endpoint, OtherSurvivors(i))) > 0)
                => NumEq(result[k].score, Rat(100 * ExpectedValidCount(i), total))

(***************************************************************************)
(* C2  For a report with metrics and a non-empty set of peer reports,      *)
(* validateNodeData resolves to true exactly when the block height is      *)
(* within 5% of the peer median and the TPS within max(5% of the median,   *)
(* 1), the boundary included; with a median block height of 0 every        *)
(* nonzero block height is invalid.                                        *)
(***************************************************************************)
C2_ValidIffWithinTolerance ==
    LET peers == PeerReports(nodeData.endpoint, otherSubmissions)
        bh2 == TwiceMedian([i \in 1..Len(peers) |-> peers[i].metrics.blockHeight])
    IN  (/\ vpc = "settled"
         /\ Len(peers) > 0
         /\ nodeData.hasMetrics
         /\ \A i \in 1..Len(peers) : peers[i].hasMetrics)
        => /\ vPromise.status = "fulfilled"
           /\ vPromise.value <=> WithinTolerance(nodeData, peers)
           /\ (bh2 = 0 /\ nodeData.metrics.blockHeight # 0) => ~vPromise.value

\* a report exactly on the edge of the block-height band has been judged valid
C2_Witness ==
    LET peers == PeerReports(nodeData.endpoint, otherSubmissions)
        bh2 == TwiceMedian([i \in 1..Len(peers) |-> peers[i].metrics.blockHeight])
    IN  /\ vpc = "settled"
        /\ Len(peers) > 0
        /\ nodeData.hasMetrics
        /\ \A i \in 1..Len(peers) : peers[i].hasMetrics
        /\ bh2 > 0
        /\ 20 * Abs(2 * nodeData.metrics.blockHeight - bh2) = bh2
        /\ vPromise = Fulfilled(TRUE)

(***************************************************************************)
(* C3  A surviving submission with at least one node report, none of whose *)
(* endpoints is reported by another surviving submission, gets score 0.    *)
(***************************************************************************)
C3_NoPeersScoreZero ==
    (pc = "returned" /\ CleanBatch) =>
        \A k \in 1..Len(validSubmissions) :
            LET i == validSubmissions[k]
                nodes == submissionValues[i].nodes
            IN  (/\ Len(nodes) > 0
                 /\ \A m \in 1..Len(nodes) :
                        Len(PeerReports(nodes[m].endpoint, OtherSurvivors(i))) = 0)
                => NumEq(result[k].score, Int2Num(0))

(***************************************************************************)
(* C4  audit throws exactly when no submission of the batch survives the   *)
(* filter, the empty batch included; with a survivor it returns a list.    *)
(***************************************************************************)
C4_ThrowsIffNoSurvivor ==
    /\ pc = "thrown" => Len(SurvivorPositions) = 0
    /\ pc = "returned" => Len(SurvivorPositions) > 0 /\ Len(result) > 0
    /\ pc = "loop" => ENABLED Next

\* a batch of two submissions, each filtered, has made the call throw
C4_Witness ==
    /\ pc = "thrown"
    /\ Len(submissionValues) >= 2
    /\ \E i \in 1..Len(submissionValues) : ~submissionValues[i].isNull

(***************************************************************************)
(* C5  A surviving submission with an empty nodes array gets score 0, a    *)
(* number and not NaN.                                                     *)
(***************************************************************************)
C5_EmptyNodesScoreZero ==
    (pc = "returned" /\ CleanBatch) =>
        \A k \in 1..Len(validSubmissions) :
            Len(submissionValues[validSubmissions[k]].nodes) = 0
                => NumEq(result[k].score, Int2Num(0))

(***************************************************************************)
(* C6  A structurally sound submission is kept exactly when                *)
(* round * D <= timestamp < (round + 1) * D.                               *)
(***************************************************************************)
C6_HalfOpenWindow ==
    Terminated =>
        \A i \in 1..Len(submissionValues) :
            StructurallySound(submissionValues[i]) =>
                (i \in Range(validSubmissions)
                    <=> /\ WindowLow <= submissionValues[i].timestamp.n
                        /\ submissionValues[i].timestamp.n < WindowHigh)

(***************************************************************************)
(* C7  A submission that is not well-formed (null, nodes missing or not an *)
(* array, timestamp missing or not a number, a report without metrics) is  *)
(* dropped: it is not among the surviving submissions, gets no result and  *)
(* is no peer of another submission.                                       *)
(***************************************************************************)
C7_MalformedDropped ==
    Terminated =>
        \A i \in 1..Len(submissionValues) :
            ~StructurallySound(submissionValues[i]) =>
                /\ i \notin Range(validSubmissions)
                /\ \A k \in 1..Len(peersUsed) : i \notin Range(peersUsed[k])

(***************************************************************************)
(* C8  The returned list has one entry per surviving submission, in the    *)
(* order of the input, each with the submitter of its submission.          *)
(***************************************************************************)
C8_OneResultPerSurvivorInOrder ==
    pc = "returned" =>
        /\ Len(result) = Len(SurvivorPositions)
        /\ \A k \in 1..Len(result) :
               result[k].submitter = submissionValues[SurvivorPositions[k]].submitter

\* two submissions of different submitters have both survived and been scored
C8_Witness ==
    /\ pc = "returned"
    /\ Len(result) = 2
    /\ submissionValues[1].submitter # submissionValues[2].submitter

(***************************************************************************)
(* C9  The peer reports a node report of a surviving submission S is       *)
(* compared against never come from S itself nor from a submission of S's  *)
(* own submitter, also when the batch holds two submissions of one         *)
(* submitter or one submission twice.                                      *)
(***************************************************************************)
C9_NoSelfCorroboration ==
    (pc = "returned" /\ CleanBatch) =>
        \A k \in 1..Len(validSubmissions) :
            LET i == validSubmissions[k]
                nodes == submissionValues[i].nodes
            IN  \A m \in 1..Len(nodes) :
                    \A j \in Range(peersUsed[k]) :
                        Len(PeerReports(nodes[m].endpoint, <<submissionValues[j]>>)) > 0
                            => /\ j # i
                               /\ submissionValues[j].submitter
                                      # submissionValues[i].submitter

(***************************************************************************)
(* C10 For a non-empty list getMedian returns the order-statistic median,  *)
(* the middle element for an odd count and the mean of the two middle      *)
(* elements for an even count, and the same for every permutation.         *)
(***************************************************************************)
Bijections(n) ==
    {f \in [1..n -> 1..n] : \A i, j \in 1..n : i # j => f[i] # f[j]}

C10_OrderStatisticMedian ==
    (mpc = "returned" /\ Len(numbers) > 0) =>
        /\ NumEq(median, Rat(TwiceMedian(numbers), 2))
        /\ \A f \in Bijections(Len(numbers)) :
               getMedian([i \in 1..Len(numbers) |-> numbers[f[i]]]) = median

\* an unsorted even-sized input with a negative value
C10_Witness ==
    /\ mpc = "returned"
    /\ Len(numbers) = 2
    /\ numbers[1] > numbers[2]
    /\ numbers[2] < 0
    /\ NumEq(median, Rat(numbers[1] + numbers[2], 2))

(***************************************************************************)
(* C11 With block heights 100, 101 and 150 reported for one endpoint and   *)
(* equal TPS, the validation of each report against the other two judges   *)
(* the 150 report invalid and the 100 and 101 reports valid.               *)
(***************************************************************************)
\* the call validates a report of the scenario against the other two
ScenarioCall ==
    LET peers == PeerReports(nodeData.endpoint, otherSubmissions)
        all == {100, 101, 150}
    IN  /\ vpc = "settled"
        /\ nodeData.hasMetrics
        /\ Len(otherSubmissions) = 2
        /\ Len(peers) = 2
        /\ \A i \in 1..2 : /\ peers[i].hasMetrics
                           /\ peers[i].metrics.tps = nodeData.metrics.tps
        /\ nodeData.metrics.blockHeight \in all
        /\ {peers[1].metrics.blockHeight, peers[2].metrics.blockHeight}
               = all \ {nodeData.metrics.blockHeight}

C11_OutlierOnlyInvalid ==
    ScenarioCall =>
        /\ vPromise.status = "fulfilled"
        /\ vPromise.value <=> nodeData.metrics.blockHeight # 150

\* amended: each of the three reports is invalid, the 100 and 101 reports
\* being 25.5 and 24 off their peer medians 125.5 and 125
C11_AllThreeInvalid ==
    ScenarioCall => vPromise = Fulfilled(FALSE)

\* the 100 report has been validated against the 101 and the 150 report
C11_Witness ==
    /\ ScenarioCall
    /\ nodeData.metrics.blockHeight = 100
    /\ vPromise = Fulfilled(FALSE)

(***************************************************************************)
(* C12 audit, validateNodeData and getMedian leave their arguments as they *)
(* were: no step of a call, returning or throwing, changes the batch, its  *)
(* objects, the report, the peers' submissions or the list of numbers.     *)
(***************************************************************************)
C12_InputsUnchanged ==
    [][/\ submissionValues' = submissionValues
       /\ objId' = objId
       /\ nodeData' = nodeData
       /\ otherSubmissions' = otherSubmissions
       /\ numbers' = numbers]_vars

\* getMedian has returned and its unsorted argument is still in the state
C12_Witness ==
    /\ mpc = "returned"
    /\ Len(numbers) >= 2
    /\ numbers[1] > numbers[2]

C14_AnyFailureNotResponding ==
    (cpc = "done" /\ failing # {}) => report = NotResponding

\* amended: so it is in NodeMetrics and in the PulseChain task; the monitor
\* reports not responding exactly when the /health request or the getSlot
\* awaited for getBlockTime fails, and otherwise returns isResponding true
\* with the answers of the requests that succeeded
C14_FailureByCollector ==
    cpc = "done" =>
        /\ (variant \in {"NodeMetrics", "PulseChain"} /\ failing # {})
               => report = NotResponding
        /\ (variant \in {"NodeMetrics", "PulseChain"} /\ failing = {})
               => report.isResponding /\ report.populated = Requests(variant)
        /\ variant = "Monitor" =>
               /\ report.isResponding
                      <=> (healthOk /\ failing \cap {"fetchHealth", "getSlotForBlockTime"} = {})
               /\ report.isResponding => report.populated = MonitorCaught \ failing
               /\ ~report.isResponding => report.populated = {}

\* NodeMetrics has answered the not-responding sentinel because the last
\* request it issues, getClusterNodes, was rejected
C14_Witness ==
    /\ cpc = "done"
    /\ variant = "NodeMetrics"
    /\ failing = {"getClusterNodes"}
    /\ report = NotResponding

(***************************************************************************)
(* C15 Whatever the interleaving and the completion order of the endpoint  *)
(* checks and whichever of them fail, the nodes sequence of a run holds    *)
(* exactly one report per monitored endpoint in the order of the endpoint  *)
(* list, the summary is handed to the host only after every check has      *)
(* settled, and a run fails only because the host rejected the summary,    *)
(* never because an endpoint check failed.                                 *)
(***************************************************************************)
C15_OneReportPerEndpointInOrder ==
    /\ tpc \in {"storing", "stored", "failed"} =>
           /\ \A i \in 1..Len(checks) : Settled(checks[i])
           /\ Len(taskNodes) = Len(Endpoints(taskVariant))
           /\ \A i \in 1..Len(taskNodes) :
                  /\ taskNodes[i].endpoint = Endpoints(taskVariant)[i]
                  /\ taskNodes[i].isResponding <=> checks[i] = "ok"
    /\ tpc = "failed" => cause = "host"
    /\ tpc = "checking" => taskNodes = <<>>

\* the summary is stored although the first endpoint's check failed and the
\* checks settled in the reverse of the endpoint order
C15_Witness ==
    /\ tpc = "stored"
    /\ taskVariant = "PulseChain"
    /\ settled = <<3, 2, 1>>
    /\ checks[1] = "sentinel"
    /\ checks[2] = "ok"

(***************************************************************************)
(* C16 Task.task treats a not-responding sentinel as absent information:   *)
(* its field values (responseTime -1, blockHeight 0, tps 0, peerCount 0)   *)
(* are not scored as measurements, so a not-responding endpoint brings no  *)
(* metric score into its node score or into networkScore.                  *)
(***************************************************************************)
C16_SentinelNotScored ==
    spc \in {"returned", "thrown"} =>
        \A i \in 1..Len(results) :
            ~results[i].isResponding =>
                /\ validatedResults[i].weightedScore = Rat(0, 100)
                /\ validatedResults[i].score = 0

(***************************************************************************)
(* C18 Whatever the collectors report, sentinels included, and whatever    *)
(* lastCheck is, every node score of validateMetrics is an integer in      *)
(* [0,100] and the networkScore of the submission is a number in [0,100].  *)
(***************************************************************************)
C18_ScoresInRange ==
    spc \in {"returned", "thrown"} =>
        /\ \A i \in 1..Len(validatedResults) :
               validatedResults[i].score \in 0..100
        /\ ~SubmissionData.networkScore.nan
        /\ NumLe(Int2Num(0), SubmissionData.networkScore)
        /\ NumLe(SubmissionData.networkScore, Int2Num(100))
        /\ \A i \in 1..Len(SubmissionData.nodes) :
               SubmissionData.nodes[i].score = validatedResults[i].score

\* a later round: the first endpoint reaches the top score 100 against the
\* lastCheck of the round before, the second is not responding
C18_Witness ==
    /\ spc = "returned"
    /\ validatedResults[1].score = 100
    /\ ~results[2].isResponding
    /\ networkScore = Rat(137, 2)

(***************************************************************************)
(* C17 validateSubmission is true only if every node report has a numeric  *)
(* blockHeight >= 0, a numeric tps >= 0, a numeric responseTime >= 0 and a *)
(* string health, and networkScore is a number in [0,100]; submitTask      *)
(* returns the stored data only when validateSubmission is true and fails  *)
(* otherwise.                                                              *)
(***************************************************************************)
NumericAtLeastZero(v) == v.type = "number" /\ ~v.nan /\ v.n >= 0

C17_OnlyValidDataReturned ==
    subPc \in {"returned", "thrown"} =>
        /\ isValid =>
               /\ \A i \in 1..Len(storedData.nodes) :
                      LET m == storedData.nodes[i].metrics
                      IN  /\ NumericAtLeastZero(m.blockHeight)
                          /\ NumericAtLeastZero(m.tps)
                          /\ NumericAtLeastZero(m.responseTime)
                          /\ m.health.type = "string"
               /\ NumericAtLeastZero(storedData.networkScore)
               /\ storedData.networkScore.n <= 100
        /\ subPc = "returned" <=> isValid
        /\ subPc = "returned" => returnedData = storedData

(***************************************************************************)
(* C19 The PulseChain audit never throws: for input that cannot be parsed  *)
(* or that lacks the expected fields it returns {isValid: false, score:    *)
(* 0}; otherwise score is the number of passing checks over 6 and isValid  *)
(* holds exactly when score >= 0.7.                                        *)
(***************************************************************************)
\* the fields of StatusSummary: timestamp, roundNumber, nodes, networkStats
\* with its activeNodes
LacksExpectedFields(v) ==
    \/ v.shape # "summary"
    \/ v.timestamp = JsAbsent
    \/ ~v.hasRoundNumber
    \/ v.activeNodes = JsAbsent

ScoredByChecks ==
    /\ pulseResult.score = Rat(PassedChecks(pulseChecks), 6)
    /\ pulseResult.isValid <=> 10 * PassedChecks(pulseChecks) >= 7 * 6

C20_NoRespondingNodeInvalid ==
    ( /\ ppc = "returned"
      /\ submissionValue.shape = "summary"
      /\ Len(submissionValue.nodes) = 3
      /\ \A i \in 1..3 : submissionValue.nodes[i] = PulseSentinel
      /\ submissionValue.activeNodes = JsNumber(0) )
    => ~pulseResult.isValid

(***************************************************************************)
(* C21 Once the PulseChain task(r) has stored its summary, a following     *)
(* submission(r) reads that summary and submits it through submitTask,     *)
(* returning true; submission(r) returns false without submitting only     *)
(* when no task result was stored for round r or a host call failed.       *)
(***************************************************************************)
C21_StoredSummaryIsSubmitted ==
    lastOp.op = "submission" =>
        LET summary == hostStore[TaskKey(lastOp.round)]
        IN  /\ (summary # NoValue /\ ~lastOp.hostFailed) =>
                   /\ lastOp.returned
                   /\ [roundNumber |-> lastOp.round, taskOutput |-> summary]
                          \in hostSubmissions
            /\ ~lastOp.returned => (summary = NoValue \/ lastOp.hostFailed)

(***************************************************************************)
(* C22 For every round number r >= 0, the submission data Task.task builds *)
(* when every monitored endpoint responds is accepted by                   *)
(* validateSubmission if validated within one hour of its timestamp; when  *)
(* some endpoint was not responding, validateSubmission rejects it.        *)
(***************************************************************************)
C22_BuiltDataAcceptedIffAllRespond ==
    validation.state = "done" =>
        /\ ( /\ \A i \in 1..Len(validation.results) : validation.results[i].isResponding
             /\ validation.age <= 3600000 )
           => validation.accepted
        /\ (\E i \in 1..Len(validation.results) : ~validation.results[i].isResponding)
           => ~validation.accepted

(***************************************************************************)
(* C23 Over the rounds of one Task object: lastCheck is null before the    *)
(* first successful round; after a round whose submitTask succeeds it is   *)
(* the raw result of the first endpoint of that round; after a round that  *)
(* fails it is unchanged.  The blockHeight score of every endpoint in a    *)
(* round is 80 when the lastCheck the round started with is null or has    *)
(* blockHeight 0, and otherwise 40, 60, 80 or 100 as the endpoint's        *)
(* blockHeight minus lastCheck.blockHeight is <= 0, 1..4, 5..9 or >= 10.   *)
(***************************************************************************)
ExpectedBlockHeightScore(blockHeight, last) ==
    IF last = NoCheck THEN 80
    ELSE IF last.blockHeight = 0 THEN 80
    ELSE LET advance == blockHeight - last.blockHeight
         IN  CASE advance <= 0 -> 40
               [] advance \in 1..4 -> 60
               [] advance \in 5..9 -> 80
               [] advance >= 10 -> 100

C23_LastCheckFollowsRounds ==
    /\ (spc = "ready" => lastCheck = NoCheck)
    /\ [][ /\ spc' = "returned" => lastCheck' = results'[1]
           /\ spc' = "thrown" => lastCheck' = lastCheck
           /\ \A i \in 1..Len(results') :
                  validatedResults'[i].scores.blockHeight
                      = ExpectedBlockHeightScore(results'[i].blockHeight, lastCheck)
         ]_vars

\* a round that failed after one that succeeded: lastCheck is still the first
\* result of the earlier round, at height 100, against which the heights 104
\* and 0 of the failed round scored 60 and 40
C23_Witness ==
    /\ spc = "thrown"
    /\ lastCheck # NoCheck
    /\ lastCheck.blockHeight = 100
    /\ results[1].blockHeight = 104
    /\ lastCheck # results[1]
    /\ validatedResults[1].scores.blockHeight = 60
    /\ ~results[2].isResponding
    /\ validatedResults[2].scores.blockHeight = 40

(***************************************************************************)
(* C24 In the loop of monitorNodes the previous-check state is null during *)
(* the first iteration and in every later iteration is the full result     *)
(* list of the iteration before; so no comparison-based issue is reported  *)
(* in the first iteration, and later "Blocks not advancing" is reported    *)
(* for a responding node exactly when its blockHeight equals the           *)
(* blockHeight recorded at the same index in the iteration before.         *)
(***************************************************************************)
ComparisonIssues == {"Blocks not advancing", "High transaction fees", "TPS dropped by >50%"}

C24_PreviousCheckThreaded ==
    /\ (monPc = "start" => previousCheck = NoPrevious)
    /\ [][ /\ previousResults' = previousCheck
           /\ previousCheck' = monitorResults'
           /\ IF monPc = "start"
              THEN /\ previousResults' = NoPrevious
                   /\ \A i \in 1..Len(monitorResults') :
                          Range(printedIssues'[i]) \cap ComparisonIssues = {}
              ELSE /\ previousResults' = monitorResults
                   /\ \A i \in 1..Len(monitorResults') :
                          monitorResults'[i].isResponding =>
                              ("Blocks not advancing" \in Range(printedIssues'[i])
                                  <=> monitorResults'[i].blockHeight
                                          = monitorResults[i].blockHeight)
         ]_vars

\* a later iteration: the second node stands at the height it had before and
\* is reported, the first node has moved from 100 to 101 and is not
C24_Witness ==
    /\ monPc = "sleeping"
    /\ previousResults # NoPrevious
    /\ previousResults[1].blockHeight = 100
    /\ monitorResults[1].blockHeight = 101
    /\ monitorResults[2].isResponding
    /\ previousResults[2].blockHeight = 101
    /\ monitorResults[2].blockHeight = 101
    /\ "Blocks not advancing" \in Range(printedIssues[2])
    /\ "Blocks not advancing" \notin Range(printedIssues[1])

====
